---- MODULE Spec2Model ----
(***************************************************************************)
(* Model of the flag-controlled logger of src/src/dynamicLogger.ts         *)
(* (createFlagBasedLogger): cached log level, throttled and guarded        *)
(* refresh through ldClient.variation, message classification, the four    *)
(* emission entry points and setClient with its change listener.           *)
(*                                                                         *)
(* JavaScript strings are TLA+ strings; startsWith / includes /            *)
(* toLowerCase are computed character by character.  The remote client is  *)
(* external code: while variation() runs it may log back into the logger,  *)
(* deliver change events, and let time pass, and it may return or throw.   *)
(***************************************************************************)
EXTENDS Integers, Sequences, FiniteSets, TLC

(***************************************************************************)
(* Bounds of the model.                                                    *)
(***************************************************************************)
NumClients == 2        \* remote clients that can be bound
MaxBinds == 2          \* calls of setClient in one run
MaxDepth == 2          \* variation() calls that may be on the stack
MaxIntervals == 1      \* refresh intervals the clock runs for
MaxWaits == 4          \* half debounce periods the component is followed for
MaxFlips == 1          \* changes of the flag's value before it stays

(***************************************************************************)
(* Program constants.                                                      *)
(***************************************************************************)
CHECK_INTERVAL == 5000
DefaultFlagKey == "sdk-log-level"
DefaultLogLevel == "info"

\* Date.now() is milliseconds since 1970, so now - 0 >= CHECK_INTERVAL in
\* every run; the epoch offset is cut down to the least such value.
StartTime == CHECK_INTERVAL
MaxTime == StartTime + MaxIntervals * CHECK_INTERVAL
TickSteps == {CHECK_INTERVAL - 1, CHECK_INTERVAL}

(***************************************************************************)
(* Values.                                                                 *)
(***************************************************************************)
NoClient == 0                       \* ldClient = null
Clients == 1..NumClients
Levels == {"debug", "info", "warn", "error"}
Methods == <<"debug", "info", "warn", "error">>
Null == "<null>"                    \* JS null / undefined as a flag value
Unrecognized == "verbose"           \* a string that names no level
RemoteValues == Levels \cup {Unrecognized, Null}
\* Argument values of the constructor: none, a string, null, and the
\* record { logLevelFlagKey: k } that LoggerExample.tsx passes.  CtorArgs
\* is the construction of the module's own logger (the key it passes is
\* the default one); AllCtorArgs adds the other shapes.
Undefined == [type |-> "undefined"]
JsNull == [type |-> "null"]
JsString(s) == [type |-> "string", value |-> s]
JsRecord(k) == [type |-> "object", logLevelFlagKey |-> k]
CtorArgs == {Undefined, JsString("sdk-log-level")}
AllCtorArgs ==
  CtorArgs \cup {JsString("custom-log-level"), JsString(""), JsNull,
                 JsRecord("custom-log-level")}
ChangeKeys == {"sdk-log-level", "custom-log-level"}

(***************************************************************************)
(* String primitives of the JavaScript runtime.                            *)
(***************************************************************************)
startsWith(s, p) ==
  Len(s) >= Len(p) /\ SubSeq(s, 1, Len(p)) = p

includes(s, p) ==
  \E i \in 1..(Len(s) - Len(p) + 1) : SubSeq(s, i, i + Len(p) - 1) = p

UpperChars == "ABCDEFGHIJKLMNOPQRSTUVWXYZ"
LowerChars == "abcdefghijklmnopqrstuvwxyz"

LowerChar(c) ==
  IF \E i \in 1..Len(UpperChars) : SubSeq(UpperChars, i, i) = c
  THEN LET i == CHOOSE j \in 1..Len(UpperChars) : SubSeq(UpperChars, j, j) = c
       IN  SubSeq(LowerChars, i, i)
  ELSE c

RECURSIVE toLowerCase(_)
toLowerCase(s) ==
  IF Len(s) = 0 THEN ""
  ELSE LowerChar(SubSeq(s, 1, 1)) \o toLowerCase(SubSeq(s, 2, Len(s)))

(***************************************************************************)
(* Messages the callers log.  The calls that may nest (a client logging   *)
(* from inside variation()) use one plain message; every message shape is  *)
(* exercised by the top-level calls of SpecMessages.                       *)
(***************************************************************************)
CoreMessages == {"x"}

Messages ==
  { "x",
    "boom",
    "[INFO] x",
    "[DEBUG]x",
    "{\"context\":{\"key\":\"u1\"},\"key\":\"flag1\"}",
    "{x}",
    "a \"key\"",
    "SDK-LOG-LEVEL",
    "evaluating",
    "custom-log-level" }

\* The messages the example component logs when the client is ready.
DemoMessage(method) ==
  CASE method = "debug" ->
         "This debug message will only appear if the sdk-log-level flag is set to \"debug\""
    [] method = "info" ->
         "This info message will appear if the sdk-log-level flag is set to \"debug\" or \"info\""
    [] method = "warn" ->
         "This warning message will appear if the sdk-log-level flag is set to \"debug\", \"info\", or \"warn\""
    [] method = "error" -> "This error message will always appear"

DemoMessages ==
  {DemoMessage(method) : method \in {"debug", "info", "warn", "error"}}

\* Messages that probe isInternalSdkMessage one rule at a time, split by
\* the classification the rules give them.
InternalProbes ==
  { "{\"context\":1}", "{\"key\":1}", "{\"value\":1}", "{\"version\":1}",
    "{\"variation\":1}", "{\"creationDate\":1}",
    "enqueueing \"feature\" event", "enqueueing \"identify\" event",
    "enqueueing \"custom\" event", "enqueueing \"click\" event",
    "enqueueing \"page\" event",
    "received streaming update", "received flag", "evaluating",
    "evaluation", "variation", "Debug", "debug:", "Summary", "summary:",
    "sdk-log-level", "SDK-Log-Level", "sdkLogLevel" }

PlainProbes ==
  { "{x}", "a \"key\"", "\"value\"{", "enqueueing \"other\" event",
    "received", "debug", "summary", "sdkloglevel", "SDKLOGLEVEL",
    "custom-log-level" }

(***************************************************************************)
(* createFlagBasedLogger(flagKey = 'sdk-log-level'): the default parameter *)
(* applies when the argument is undefined; any other argument is kept as   *)
(* it is.  The model's flagKey is the property key under which that value  *)
(* is looked up in changes[flagKey].                                       *)
(***************************************************************************)
ToPropertyKey(arg) ==
  CASE arg.type = "string" -> arg.value
    [] arg.type = "null" -> "null"
    [] arg.type = "undefined" -> "undefined"
    [] arg.type = "object" -> "[object Object]"

createFlagBasedLogger(arg) ==
  IF arg = Undefined THEN DefaultFlagKey ELSE ToPropertyKey(arg)

(***************************************************************************)
(* isInternalSdkMessage                                                    *)
(***************************************************************************)
JsonMarkers ==
  { "\"context\"", "\"key\"", "\"value\"", "\"version\"", "\"variation\"",
    "\"creationDate\"" }

EventPhrases ==
  { "enqueueing \"feature\" event", "enqueueing \"identify\" event",
    "enqueueing \"custom\" event", "enqueueing \"click\" event",
    "enqueueing \"page\" event" }

DebugPhrases ==
  { "received streaming update", "received flag", "evaluating", "evaluation",
    "variation", "Debug", "debug:", "Summary", "summary:" }

\* Mutant: the flag key is matched case-sensitively.
isInternalSdkMessage_CaseSensitive(message) ==
  \/ startsWith(message, "{") /\ \E k \in JsonMarkers : includes(message, k)
  \/ \E p \in EventPhrases : includes(message, p)
  \/ \E p \in DebugPhrases : includes(message, p)
  \/ includes(message, "sdk-log-level")
  \/ includes(message, "sdkLogLevel")

\* Mutant: only the camel-case spelling of the flag key is matched.
isInternalSdkMessage_CamelOnly(message) ==
  \/ startsWith(message, "{") /\ \E k \in JsonMarkers : includes(message, k)
  \/ \E p \in EventPhrases : includes(message, p)
  \/ \E p \in DebugPhrases : includes(message, p)
  \/ includes(message, "sdkLogLevel")

isInternalSdkMessage(message) ==
  \/ startsWith(message, "{") /\ \E k \in JsonMarkers : includes(message, k)
  \/ \E p \in EventPhrases : includes(message, p)
  \/ \E p \in DebugPhrases : includes(message, p)
  \/ includes(toLowerCase(message), "sdk-log-level")
  \/ includes(message, "sdkLogLevel")

(***************************************************************************)
(* isCustomFormattedMessage                                                *)
(***************************************************************************)
isCustomFormattedMessage(message) ==
  \/ startsWith(message, "[DEBUG] ")
  \/ startsWith(message, "[INFO] ")
  \/ startsWith(message, "[WARN] ")
  \/ startsWith(message, "[ERROR] ")

(***************************************************************************)
(* shouldLog(level, message), given the value logLevel that its call of    *)
(* getLogLevel() returned.                                                 *)
(***************************************************************************)
\* Mutant: the info case accepts only the level info.
LevelSwitch_InfoOnly(level, logLevel) ==
  CASE level = "debug" -> logLevel = "debug"
    [] level = "info"  -> logLevel \in {"info"}
    [] level = "warn"  -> logLevel \in {"debug", "info", "warn"}
    [] level = "error" -> TRUE
    [] OTHER           -> FALSE

\* Mutant: the warn case forgets the level debug.
LevelSwitch_WarnNarrow(level, logLevel) ==
  CASE level = "debug" -> logLevel = "debug"
    [] level = "info"  -> logLevel \in {"debug", "info"}
    [] level = "warn"  -> logLevel \in {"info", "warn"}
    [] level = "error" -> TRUE
    [] OTHER           -> FALSE

\* Mutant: the error case passes only under one of the four level names.
LevelSwitch_ErrorByLevel(level, logLevel) ==
  CASE level = "debug" -> logLevel = "debug"
    [] level = "info"  -> logLevel \in {"debug", "info"}
    [] level = "warn"  -> logLevel \in {"debug", "info", "warn"}
    [] level = "error" -> logLevel \in Levels
    [] OTHER           -> FALSE

LevelSwitch(level, logLevel) ==
  CASE level = "debug" -> logLevel = "debug"
    [] level = "info"  -> logLevel \in {"debug", "info"}
    [] level = "warn"  -> logLevel \in {"debug", "info", "warn"}
    [] level = "error" -> TRUE
    [] OTHER           -> FALSE

\* Mutant: the error rule is applied before the internal-message test.
shouldLog_ErrorFirst(level, message, logLevel) ==
  IF level = "error" THEN TRUE
  ELSE IF isInternalSdkMessage(message) THEN FALSE
  ELSE LevelSwitch(level, logLevel)

shouldLog(level, message, logLevel) ==
  IF isInternalSdkMessage(message) THEN FALSE
  ELSE IF isCustomFormattedMessage(message) THEN LevelSwitch(level, logLevel)
  ELSE LevelSwitch(level, logLevel)

(***************************************************************************)
(* The four entry points after level resolution: the lines each writes to  *)
(* the console, as <<writer, text>> records.                               *)
(***************************************************************************)
Line(writer, text) == [sink |-> writer, text |-> text]

\* Mutant: debug tests the level only.
debugLines_LevelOnly(message, logLevel) ==
  IF logLevel = "debug"
  THEN IF startsWith(message, "[DEBUG]")
       THEN <<Line("log", message)>>
       ELSE <<Line("log", "[DEBUG] " \o message)>>
  ELSE <<>>

debugLines(message, logLevel) ==
  IF logLevel = "debug" /\ ~isInternalSdkMessage(message)
  THEN IF startsWith(message, "[DEBUG]")
       THEN <<Line("log", message)>>
       ELSE <<Line("log", "[DEBUG] " \o message)>>
  ELSE <<>>

infoLines(message, logLevel) ==
  IF shouldLog("info", message, logLevel)
  THEN <<Line("info", "[INFO] " \o message)>>
  ELSE <<>>

warnLines(message, logLevel) ==
  IF shouldLog("warn", message, logLevel)
  THEN <<Line("warn", "[WARN] " \o message)>>
  ELSE <<>>

\* Mutant: the fallback branch writes without the internal-message test.
errorLines_Unfiltered(message, logLevel) ==
  IF shouldLog("error", message, logLevel)
  THEN <<Line("error", "[ERROR] " \o message)>>
  ELSE <<Line("error", "[ERROR] " \o message)>>

errorLines(message, logLevel) ==
  IF shouldLog("error", message, logLevel)
  THEN <<Line("error", "[ERROR] " \o message)>>
  ELSE IF ~isInternalSdkMessage(message)
       THEN <<Line("error", "[ERROR] " \o message)>>
       ELSE <<>>

Written(method, message, logLevel) ==
  CASE method = "debug" -> debugLines(message, logLevel)
    [] method = "info"  -> infoLines(message, logLevel)
    [] method = "warn"  -> warnLines(message, logLevel)
    [] method = "error" -> errorLines(message, logLevel)

\* Written, tabulated once over the calls and levels of the model.
Console ==
  [method \in {"debug", "info", "warn", "error"},
   message \in Messages \cup DemoMessages \cup InternalProbes \cup PlainProbes,
   logLevel \in RemoteValues |-> Written(method, message, logLevel)]

(***************************************************************************)
(* State.                                                                  *)
(***************************************************************************)
VARIABLES
  flagKey,          \* closure parameter of createFlagBasedLogger
  ldClient,         \* bound client, NoClient while null
  currentLogLevel,  \* cached level
  isCheckingFlag,   \* recursion guard
  lastCheckTime,    \* Date.now() of the last refresh
  now,              \* the clock, Date.now()
  listeners,        \* clients on which setClient installed a change handler
  stack,            \* emission calls suspended inside ldClient.variation()
  last,             \* the emission call that returned in the latest step
  lastQueryAt,      \* when variation() was last entered, -1 if never
  lastQueryEnd,     \* when variation() last returned or threw, -1 if never
  pending,          \* value of the latest change notification for flagKey
                    \* that no call has used and no query result has
                    \* replaced, NoValue if none
  mounted,          \* LoggerUpdater's effect: "no", "yes", "gone"
  handlers,         \* handleFlagChange subscriptions on the client
  debounceTimer,    \* LoggerUpdater's debounceTimer, NoTimer while null
  lastLogLevel,     \* LoggerUpdater's lastLogLevel
  timers,           \* window timers set and neither fired nor cleared
  context,          \* what ldClient.getContext() returns
  observed,         \* what an observer of LoggerUpdater has seen so far
  remote            \* the flag's value at the remote client and how often
                    \* it has changed; Unknown where any value may be
                    \* returned

\* The variables of the LoggerUpdater component of the example.
component == <<mounted, handlers, debounceTimer, lastLogLevel, timers,
               context, observed>>

vars == <<flagKey, ldClient, currentLogLevel, isCheckingFlag, lastCheckTime,
          now, listeners, stack, last, lastQueryAt, lastQueryEnd, pending,
          component, remote>>

NoValue == "<none>"

NoCall ==
  [method |-> "none", msg |-> "", level |-> DefaultLogLevel, lines |-> <<>>,
   queried |-> FALSE, threw |-> FALSE, depth |-> 0, guard |-> FALSE,
   client |-> NoClient, returned |-> NoValue,
   replaced |-> "none"]

(***************************************************************************)
(* Values of the LoggerUpdater component (LoggerExample.tsx).              *)
(***************************************************************************)
DEBOUNCE == 500
ClockStep == DEBOUNCE \div 2
WaitUntil == StartTime + MaxWaits * ClockStep
\* Values of changes[logLevelFlagKey].current: two level names and null.
CurrentValues == {"debug", "warn", Null}
\* The key SetupForm offers and App hands to the component and the logger.
logLevelFlagKey == "custom-log-level"
\* ldClient.getContext(): nothing, an anonymous context, a known user.
Contexts == {"none", "anonymous", "user"}
\* A window timer: when it is due and the newLogLevel its callback closes
\* over.  NoTimer is debounceTimer = null.
NoTimer == [due |-> -1, level |-> NoValue]
Timer(v) == [due |-> now + DEBOUNCE, level |-> v]

\* Nothing seen yet.  event is the kind of the latest step; seen is the
\* value of the latest notification for logLevelFlagKey the component was
\* handed, differAt the time of the latest one whose value was not the one
\* seen before it; rapid says that one came less than DEBOUNCE after the
\* differing one before it, repeated that a notification repeating its
\* value came after it, answered that a re-identify has been issued since.
\* identifies counts the component's ldClient.identify calls; idRapid and
\* idRepeated are rapid and repeated as they were at the latest of them.
NoObservation ==
  [event |-> "none", seen |-> NoValue, differAt |-> -1, rapid |-> FALSE,
   repeated |-> FALSE, answered |-> FALSE, identifies |-> 0,
   idRapid |-> FALSE, idRepeated |-> FALSE]

\* Nothing is assumed about the flag's value at the client.
Unknown == [value |-> NoValue, changes |-> 0]

\* Before the component's effect has run.
ComponentInit ==
  /\ mounted = "no"
  /\ handlers = 0
  /\ debounceTimer = NoTimer
  /\ lastLogLevel = Null
  /\ timers = {}
  /\ context = "anonymous"
  /\ observed = NoObservation

\* Mutant: the timestamp starts at the construction time, not at 0.
Init_StampedNow ==
  /\ \E arg \in CtorArgs : flagKey = createFlagBasedLogger(arg)
  /\ ldClient = NoClient
  /\ currentLogLevel = DefaultLogLevel
  /\ isCheckingFlag = FALSE
  /\ lastCheckTime = StartTime
  /\ now = StartTime
  /\ listeners = <<>>
  /\ stack = <<>>
  /\ last = NoCall
  /\ lastQueryAt = -1
  /\ lastQueryEnd = -1
  /\ pending = NoValue
  /\ ComponentInit
  /\ remote = Unknown

Init ==
  /\ \E arg \in CtorArgs : flagKey = createFlagBasedLogger(arg)
  /\ ldClient = NoClient
  /\ currentLogLevel = DefaultLogLevel
  /\ isCheckingFlag = FALSE
  /\ lastCheckTime = 0
  /\ now = StartTime
  /\ listeners = <<>>
  /\ stack = <<>>
  /\ last = NoCall
  /\ lastQueryAt = -1
  /\ lastQueryEnd = -1
  /\ pending = NoValue
  /\ ComponentInit
  /\ remote = Unknown

(***************************************************************************)
(* getLogLevel: the three early returns, then the guarded query.           *)
(***************************************************************************)
\* Mutant: no time throttle.
ReturnsCached_NoThrottle ==
  \/ ldClient = NoClient
  \/ isCheckingFlag

\* Mutant: no recursion guard.
ReturnsCached_NoGuard ==
  \/ ldClient = NoClient
  \/ now - lastCheckTime < CHECK_INTERVAL

\* Mutant: no test for a missing client.
ReturnsCached_NoNullCheck ==
  \/ isCheckingFlag
  \/ now - lastCheckTime < CHECK_INTERVAL

\* Mutant: neither recursion guard nor throttle.
ReturnsCached_NullCheckOnly ==
  ldClient = NoClient

\* Mutant: the throttle also holds at exactly CHECK_INTERVAL.
ReturnsCached_OffByOne ==
  \/ ldClient = NoClient
  \/ isCheckingFlag
  \/ now - lastCheckTime <= CHECK_INTERVAL

\* Mutant: the window is one millisecond short.
ReturnsCached_ShortWindow ==
  \/ ldClient = NoClient
  \/ isCheckingFlag
  \/ now - lastCheckTime < CHECK_INTERVAL - 1

ReturnsCached ==
  \/ ldClient = NoClient
  \/ isCheckingFlag
  \/ now - lastCheckTime < CHECK_INTERVAL

\* An entry point whose getLogLevel() returns the cached level: the call
\* runs to completion.
EmitCached(method, message) ==
  /\ ReturnsCached
  /\ last' = [method |-> method, msg |-> message, level |-> currentLogLevel,
              lines |-> Console[method, message, currentLogLevel],
              queried |-> FALSE, threw |-> FALSE, depth |-> Len(stack),
              guard |-> isCheckingFlag, client |-> NoClient,
              returned |-> NoValue, replaced |-> "none"]
  /\ pending' = NoValue
  /\ UNCHANGED <<component, remote,
                 flagKey, ldClient, currentLogLevel, isCheckingFlag,
                 lastCheckTime, now, listeners, stack, lastQueryAt,
                 lastQueryEnd>>

\* An entry point whose getLogLevel() sets the guard and the timestamp and
\* enters ldClient.variation(flagKey, currentLogLevel).
EmitRefresh(method, message) ==
  /\ ~ReturnsCached
  /\ Len(stack) < MaxDepth
  /\ isCheckingFlag' = TRUE
  /\ lastCheckTime' = now
  /\ lastQueryAt' = now
  /\ stack' = Append(stack, [method |-> method, msg |-> message,
                             client |-> ldClient, guard |-> isCheckingFlag,
                             next |-> pending # NoValue])
  /\ last' = NoCall
  /\ UNCHANGED <<component, remote,
                 flagKey, ldClient, currentLogLevel, now, listeners,
                 lastQueryEnd, pending>>

Emit(method, message) ==
  EmitCached(method, message) \/ EmitRefresh(method, message)

debug == \E m \in CoreMessages : Emit("debug", m)
info == \E m \in CoreMessages : Emit("info", m)
warn == \E m \in CoreMessages : Emit("warn", m)
error == \E m \in CoreMessages : Emit("error", m)

(***************************************************************************)
(* ldClient.variation(flagKey, currentLogLevel) is code of the remote      *)
(* client: it returns the flag's value, which is any value, or throws.     *)
(***************************************************************************)
Top == stack[Len(stack)]
Pop == SubSeq(stack, 1, Len(stack) - 1)

\* Mutant: a value that is not a level name is not cached.
AfterVariation_Validated(newLogLevel) ==
  /\ currentLogLevel' =
       IF newLogLevel \in Levels THEN newLogLevel ELSE currentLogLevel
  /\ isCheckingFlag' = FALSE

\* Mutant: a value notified while the query was in flight is kept.
AfterVariation_KeepsNotified(newLogLevel) ==
  /\ currentLogLevel' =
       IF pending # NoValue /\ ~Top.next THEN currentLogLevel
       ELSE newLogLevel
  /\ isCheckingFlag' = FALSE

\* Mutant: the try block caches the value and leaves the guard set.
AfterVariation_GuardStuck(newLogLevel) ==
  /\ currentLogLevel' = newLogLevel
  /\ UNCHANGED isCheckingFlag

\* What the try block does with the value variation() returned.
AfterVariation(newLogLevel) ==
  /\ currentLogLevel' = newLogLevel
  /\ isCheckingFlag' = FALSE

\* Mutant: the catch block leaves the guard set.
AfterThrow_KeepsGuard ==
  UNCHANGED <<isCheckingFlag, currentLogLevel, lastCheckTime>>

\* Mutant: the catch block falls back to the default level.
AfterThrow_ResetsLevel ==
  /\ isCheckingFlag' = FALSE
  /\ currentLogLevel' = DefaultLogLevel
  /\ UNCHANGED lastCheckTime

\* Mutant: the catch block takes the timestamp back, so that the next call
\* tries again.
AfterThrow_ClearsStamp ==
  /\ isCheckingFlag' = FALSE
  /\ lastCheckTime' = 0
  /\ UNCHANGED currentLogLevel

\* What the catch block does.
AfterThrow ==
  /\ isCheckingFlag' = FALSE
  /\ UNCHANGED <<currentLogLevel, lastCheckTime>>

\* variation() returns: the try block runs to its end and the entry point
\* filters with the level getLogLevel() returns.
VariationReturnsFrom(values) ==
  /\ stack # <<>>
  /\ \E newLogLevel \in values :
       /\ AfterVariation(newLogLevel)
       /\ last' = [method |-> Top.method, msg |-> Top.msg,
                   level |-> currentLogLevel',
                   lines |-> Console[Top.method, Top.msg, currentLogLevel'],
                   queried |-> TRUE, threw |-> FALSE,
                   depth |-> Len(stack) - 1, guard |-> Top.guard,
                   client |-> Top.client, returned |-> newLogLevel,
                   replaced |->
                     IF pending \in {NoValue, newLogLevel} THEN "none"
                     ELSE IF Top.next THEN "earlier" ELSE "in flight"]
  /\ stack' = Pop
  /\ lastQueryEnd' = now
  /\ pending' = NoValue
  /\ UNCHANGED <<component, remote,
                 flagKey, ldClient, lastCheckTime, now, listeners,
                 lastQueryAt>>

\* The flag's value at the client is any value.
VariationReturns == VariationReturnsFrom(RemoteValues)

\* variation() throws: the catch block runs and the entry point filters with
\* the level getLogLevel() returns.
VariationThrows ==
  /\ stack # <<>>
  /\ AfterThrow
  /\ last' = [method |-> Top.method, msg |-> Top.msg,
              level |-> currentLogLevel',
              lines |-> Console[Top.method, Top.msg, currentLogLevel'],
              queried |-> TRUE, threw |-> TRUE, depth |-> Len(stack) - 1,
              guard |-> Top.guard, client |-> Top.client,
              returned |-> NoValue, replaced |-> "none"]
  /\ stack' = Pop
  /\ lastQueryEnd' = now
  /\ pending' = IF Top.next THEN NoValue ELSE pending
  /\ UNCHANGED <<component, remote,
                 flagKey, ldClient, now, listeners, lastQueryAt>>

(***************************************************************************)
(* setClient and the change handler it installs.                           *)
(***************************************************************************)
\* Client c has been handed to setClient at least once.
Bound(c) == \E i \in 1..Len(listeners) : listeners[i] = c

\* Mutant: only the first client is stored; later calls just subscribe.
setClient_KeepsFirst ==
  \E c \in Clients :
    /\ Len(listeners) < MaxBinds
    /\ ldClient' = IF ldClient = NoClient THEN c ELSE ldClient
    /\ listeners' = Append(listeners, c)
    /\ last' = NoCall
    /\ UNCHANGED <<component, remote,
                   flagKey, currentLogLevel, isCheckingFlag, lastCheckTime,
                   now, stack, lastQueryAt, lastQueryEnd, pending>>

\* Mutant: binding a client takes the timestamp back, so that the new
\* client is polled by the next call.
setClient_ResetsWindow ==
  \E c \in Clients :
    /\ Len(listeners) < MaxBinds
    /\ ldClient' = c
    /\ listeners' = Append(listeners, c)
    /\ lastCheckTime' = 0
    /\ last' = NoCall
    /\ UNCHANGED <<component, remote,
                   flagKey, currentLogLevel, isCheckingFlag,
                   now, stack, lastQueryAt, lastQueryEnd, pending>>

\* Mutant: binding a client replaces the subscription made before.
setClient_Unsubscribes ==
  \E c \in Clients :
    /\ Len(listeners) < MaxBinds
    /\ ldClient' = c
    /\ listeners' = <<c>>
    /\ last' = NoCall
    /\ UNCHANGED <<component, remote,
                   flagKey, currentLogLevel, isCheckingFlag, lastCheckTime,
                   now, stack, lastQueryAt, lastQueryEnd, pending>>

setClient ==
  \E c \in Clients :
    /\ Len(listeners) < MaxBinds
    /\ ldClient' = c
    /\ listeners' = Append(listeners, c)
    /\ last' = NoCall
    /\ UNCHANGED <<component, remote,
                   flagKey, currentLogLevel, isCheckingFlag, lastCheckTime,
                   now, stack, lastQueryAt, lastQueryEnd, pending>>

\* Mutant: the handler is throttled like the poll.
ChangeHandler_Throttled(key, v) ==
  /\ IF key = flagKey /\ now - lastCheckTime >= CHECK_INTERVAL
     THEN currentLogLevel' = v
     ELSE UNCHANGED currentLogLevel
  /\ UNCHANGED <<isCheckingFlag, lastCheckTime>>

\* Mutant: the handler accepts only the four level names.
ChangeHandler_Validated(key, v) ==
  /\ IF key = flagKey /\ v \in Levels
     THEN currentLogLevel' = v
     ELSE UNCHANGED currentLogLevel
  /\ UNCHANGED <<isCheckingFlag, lastCheckTime>>

\* Mutant: a pushed value counts as a refresh and restarts the window.
ChangeHandler_Restamps(key, v) ==
  IF key = flagKey
  THEN /\ currentLogLevel' = v
       /\ lastCheckTime' = now
       /\ UNCHANGED isCheckingFlag
  ELSE UNCHANGED <<currentLogLevel, isCheckingFlag, lastCheckTime>>

\* The handler body for changes = { key: { current: v } }.
ChangeHandler(key, v) ==
  /\ IF key = flagKey
     THEN currentLogLevel' = v
     ELSE UNCHANGED currentLogLevel
  /\ UNCHANGED <<isCheckingFlag, lastCheckTime>>

\* The handlers the logger installed on a client run for one 'change'
\* event; call is what the step leaves in last.
Deliver(call) ==
  \E key \in ChangeKeys, v \in RemoteValues :
    /\ ChangeHandler(key, v)
    /\ IF key = flagKey
       THEN /\ pending' = v
            /\ stack' = [i \in 1..Len(stack) |->
                           [stack[i] EXCEPT !.next = FALSE]]
       ELSE UNCHANGED <<pending, stack>>
    /\ last' = call
    /\ UNCHANGED <<component, remote,
                   flagKey, ldClient, now, listeners, lastQueryAt,
                   lastQueryEnd>>

\* A client the logger subscribed to emits 'change'; every handler the
\* logger installed on it runs.
onChange ==
  /\ \E c \in Clients : Bound(c)
  /\ Deliver(NoCall)

(***************************************************************************)
(* Time passes.                                                            *)
(***************************************************************************)
Tick ==
  \E d \in TickSteps :
    /\ now + d <= MaxTime
    /\ now' = now + d
    /\ last' = NoCall
    /\ UNCHANGED <<component, remote,
                   flagKey, ldClient, currentLogLevel, isCheckingFlag,
                   lastCheckTime, listeners, stack, lastQueryAt,
                   lastQueryEnd, pending>>

Next ==
  \/ debug
  \/ info
  \/ warn
  \/ error
  \/ VariationReturns
  \/ VariationThrows
  \/ setClient
  \/ onChange
  \/ Tick

Spec == Init /\ [][Next]_vars

(***************************************************************************)
(* The message filter: every message of Messages is logged, from the top   *)
(* level only (the remote client does not log back), at every level a      *)
(* query or a change notification can cache, bound and unbound.  The       *)
(* filter does not read the clock, which stands still here.                *)
(***************************************************************************)
EmitTop(method) ==
  /\ stack = <<>>
  /\ \E m \in Messages : Emit(method, m)

NextMessages ==
  \/ EmitTop("debug")
  \/ EmitTop("info")
  \/ EmitTop("warn")
  \/ EmitTop("error")
  \/ VariationReturns
  \/ VariationThrows
  \/ setClient
  \/ onChange

SpecMessages == Init /\ [][NextMessages]_vars

\* The state after construction with any of the argument shapes.
InitAnyArgument ==
  /\ \E arg \in AllCtorArgs : flagKey = createFlagBasedLogger(arg)
  /\ ldClient = NoClient
  /\ currentLogLevel = DefaultLogLevel
  /\ isCheckingFlag = FALSE
  /\ lastCheckTime = 0
  /\ now = StartTime
  /\ listeners = <<>>
  /\ stack = <<>>
  /\ last = NoCall
  /\ lastQueryAt = -1
  /\ lastQueryEnd = -1
  /\ pending = NoValue
  /\ ComponentInit
  /\ remote = Unknown

\* A logger constructed with any argument shape, used from the top level.
NextConstruction ==
  \/ EmitTop("info")
  \/ VariationReturns
  \/ VariationThrows
  \/ setClient
  \/ onChange

SpecConstruction == InitAnyArgument /\ [][NextConstruction]_vars

\* The example component: one call per entry point with its demonstration
\* message.
EmitDemo(method) ==
  /\ stack = <<>>
  /\ Emit(method, DemoMessage(method))

NextExample ==
  \/ EmitDemo("debug")
  \/ EmitDemo("info")
  \/ EmitDemo("warn")
  \/ EmitDemo("error")
  \/ VariationReturns
  \/ VariationThrows
  \/ setClient
  \/ onChange

SpecExample == Init /\ [][NextExample]_vars

\* Calls with the probe messages, from the top level.
EmitProbe(method) ==
  /\ stack = <<>>
  /\ \E m \in InternalProbes \cup PlainProbes : Emit(method, m)

NextClassifier ==
  \/ EmitProbe("info")
  \/ EmitProbe("error")
  \/ VariationReturns
  \/ VariationThrows
  \/ setClient
  \/ onChange

SpecClassifier == Init /\ [][NextClassifier]_vars

(***************************************************************************)
(* The LoggerUpdater component of the example (LoggerExample.tsx).  Its    *)
(* effect binds the client to the logger and subscribes handleFlagChange;  *)
(* the handler debounces a re-identify; the cleanup unsubscribes it.  The  *)
(* logger.info calls of the timer callback are calls of info above and     *)
(* touch none of the component's variables; they are not repeated here.    *)
(***************************************************************************)
\* App constructs the logger with { logLevelFlagKey } and renders the
\* component with the same key.
InitExample ==
  /\ flagKey = createFlagBasedLogger(JsRecord(logLevelFlagKey))
  /\ ldClient = NoClient
  /\ currentLogLevel = DefaultLogLevel
  /\ isCheckingFlag = FALSE
  /\ lastCheckTime = 0
  /\ now = StartTime
  /\ listeners = <<>>
  /\ stack = <<>>
  /\ last = NoCall
  /\ lastQueryAt = -1
  /\ lastQueryEnd = -1
  /\ pending = NoValue
  /\ ComponentInit
  /\ remote = Unknown

\* The effect body once useLDClient() has a client: logger.setClient and
\* ldClient.on('change', handleFlagChange).
Mount ==
  \E c \in Clients :
    /\ mounted = "no"
    /\ Len(listeners) < MaxBinds
    /\ ldClient' = c
    /\ listeners' = Append(listeners, c)
    /\ last' = NoCall
    /\ mounted' = "yes"
    /\ handlers' = handlers + 1
    /\ observed' = [observed EXCEPT !.event = "none"]
    /\ UNCHANGED <<remote,
                   flagKey, currentLogLevel, isCheckingFlag, lastCheckTime,
                   now, stack, lastQueryAt, lastQueryEnd, pending,
                   debounceTimer, lastLogLevel, timers, context>>

\* Mutant: a new timer is set without clearing the one that is pending.
handleFlagChange_KeepsTimer(key, v) ==
  IF key = logLevelFlagKey /\ v # lastLogLevel
  THEN /\ lastLogLevel' = v
       /\ timers' = timers \cup {Timer(v)}
       /\ debounceTimer' = Timer(v)
  ELSE UNCHANGED <<lastLogLevel, timers, debounceTimer>>

\* handleFlagChange for changes = { key: { current: v } }.
handleFlagChange(key, v) ==
  IF key = logLevelFlagKey /\ v # lastLogLevel
  THEN /\ lastLogLevel' = v
       /\ timers' = (IF debounceTimer # NoTimer
                     THEN timers \ {debounceTimer}
                     ELSE timers) \cup {Timer(v)}
       /\ debounceTimer' = Timer(v)
  ELSE UNCHANGED <<lastLogLevel, timers, debounceTimer>>

\* What an observer records of a notification handed to the component.
Notified(key, v) ==
  IF key # logLevelFlagKey
  THEN [observed EXCEPT !.event = "other"]
  ELSE IF v = observed.seen
       THEN [observed EXCEPT !.event = "repeat", !.repeated = TRUE]
       ELSE [observed EXCEPT
               !.event = "differs",
               !.seen = v,
               !.differAt = now,
               !.rapid = /\ observed.differAt >= 0
                         /\ now - observed.differAt < DEBOUNCE,
               !.repeated = FALSE,
               !.answered = FALSE]

\* The client emits 'change': the handler the logger installed runs, then
\* handleFlagChange while it is subscribed.
Change ==
  \E key \in ChangeKeys, v \in CurrentValues :
    /\ \E c \in Clients : Bound(c)
    /\ ChangeHandler(key, v)
    /\ IF key = flagKey
       THEN /\ pending' = v
            /\ stack' = [i \in 1..Len(stack) |->
                           [stack[i] EXCEPT !.next = FALSE]]
       ELSE UNCHANGED <<pending, stack>>
    /\ last' = NoCall
    /\ IF handlers > 0
       THEN /\ handleFlagChange(key, v)
            /\ observed' = Notified(key, v)
       ELSE /\ UNCHANGED <<lastLogLevel, timers, debounceTimer>>
            /\ observed' = [observed EXCEPT !.event = "none"]
    /\ UNCHANGED <<remote, flagKey, ldClient, now, listeners, lastQueryAt,
                   lastQueryEnd, mounted, handlers, context>>

\* A pending timer's callback runs, at its due time or later.
TimerFires ==
  \E t \in timers :
    /\ t.due <= now
    /\ timers' = timers \ {t}
    /\ observed' =
         IF context = "user"
         THEN [observed EXCEPT !.event = "identify",
                               !.identifies = @ + 1,
                               !.answered = TRUE,
                               !.idRapid = observed.rapid,
                               !.idRepeated = observed.repeated]
         ELSE [observed EXCEPT !.event = "skipped"]
    /\ debounceTimer' = NoTimer
    /\ UNCHANGED <<remote, flagKey, ldClient, currentLogLevel, isCheckingFlag,
                   lastCheckTime, now, listeners, stack, last, lastQueryAt,
                   lastQueryEnd, pending, mounted, handlers, lastLogLevel,
                   context>>

\* The context changes: the user form identifies a user, or the client is
\* given another context.
SetContext ==
  \E c \in Contexts \ {context} :
    /\ context' = c
    /\ observed' = [observed EXCEPT !.event = "none"]
    /\ UNCHANGED <<remote, flagKey, ldClient, currentLogLevel, isCheckingFlag,
                   lastCheckTime, now, listeners, stack, last, lastQueryAt,
                   lastQueryEnd, pending, mounted, handlers, debounceTimer,
                   lastLogLevel, timers>>

\* Mutant: the cleanup unsubscribes but leaves the timer pending.
Unmount_KeepsTimer ==
  /\ mounted = "yes"
  /\ mounted' = "gone"
  /\ handlers' = handlers - 1
  /\ observed' = [observed EXCEPT !.event = "none"]
  /\ UNCHANGED <<remote, flagKey, ldClient, currentLogLevel, isCheckingFlag,
                 lastCheckTime, now, listeners, stack, last, lastQueryAt,
                 lastQueryEnd, pending, debounceTimer, lastLogLevel,
                 timers, context>>

\* The effect's cleanup: ldClient.off('change', handleFlagChange) and
\* clearTimeout of a timer that is pending.
Unmount ==
  /\ mounted = "yes"
  /\ mounted' = "gone"
  /\ handlers' = handlers - 1
  /\ timers' = IF debounceTimer # NoTimer
               THEN timers \ {debounceTimer}
               ELSE timers
  /\ observed' = [observed EXCEPT !.event = "none"]
  /\ UNCHANGED <<remote, flagKey, ldClient, currentLogLevel, isCheckingFlag,
                 lastCheckTime, now, listeners, stack, last, lastQueryAt,
                 lastQueryEnd, pending, debounceTimer, lastLogLevel,
                 context>>

\* Half a debounce period passes.
Wait ==
  /\ now + ClockStep <= WaitUntil
  /\ now' = now + ClockStep
  /\ observed' = [observed EXCEPT !.event = "none"]
  /\ UNCHANGED <<remote, flagKey, ldClient, currentLogLevel, isCheckingFlag,
                 lastCheckTime, listeners, stack, last, lastQueryAt,
                 lastQueryEnd, pending, mounted, handlers, debounceTimer,
                 lastLogLevel, timers, context>>

NextUpdater ==
  \/ Mount
  \/ Change
  \/ TimerFires
  \/ SetContext
  \/ Unmount
  \/ Wait

SpecUpdater == InitExample /\ [][NextUpdater]_vars

(***************************************************************************)
(* The logger with a client whose queries succeed and whose flag has a     *)
(* value that changes a finite number of times.  The clock is kept         *)
(* relative: the code reads times only through now - lastCheckTime, so     *)
(* time passing is recorded by moving the recorded times back, down to 0,  *)
(* which is as far back as CHECK_INTERVAL or further.  Calls keep coming,  *)
(* a query in flight returns, and time keeps passing.                      *)
(***************************************************************************)
\* The logger after construction and setClient(c).
InitStable ==
  /\ \E arg \in CtorArgs : flagKey = createFlagBasedLogger(arg)
  /\ \E c \in Clients : ldClient = c /\ listeners = <<c>>
  /\ currentLogLevel = DefaultLogLevel
  /\ isCheckingFlag = FALSE
  /\ lastCheckTime = 0
  /\ now = StartTime
  /\ stack = <<>>
  /\ last = NoCall
  /\ lastQueryAt = -1
  /\ lastQueryEnd = -1
  /\ pending = NoValue
  /\ ComponentInit
  /\ \E v \in RemoteValues : remote = [value |-> v, changes |-> 0]

\* variation() returns the flag's value.
StableReturns == VariationReturnsFrom({remote.value})

\* The flag is given another value at the client.
FlagChanges ==
  \E v \in RemoteValues \ {remote.value} :
    /\ remote.changes < MaxFlips
    /\ remote' = [value |-> v, changes |-> remote.changes + 1]
    /\ last' = NoCall
    /\ UNCHANGED <<component, flagKey, ldClient, currentLogLevel,
                   isCheckingFlag, lastCheckTime, now, listeners, stack,
                   lastQueryAt, lastQueryEnd, pending>>

\* A recorded time t after d more milliseconds; -1 is no time.
Aged(t, d) == IF t < 0 THEN t ELSE IF t < d THEN 0 ELSE t - d

\* Time passes.
Elapse ==
  \E d \in TickSteps :
    /\ lastCheckTime' = Aged(lastCheckTime, d)
    /\ lastQueryAt' = Aged(lastQueryAt, d)
    /\ lastQueryEnd' = Aged(lastQueryEnd, d)
    /\ last' = NoCall
    /\ UNCHANGED <<component, remote, flagKey, ldClient, currentLogLevel,
                   isCheckingFlag, now, listeners, stack, pending>>

NextStable ==
  \/ debug
  \/ info
  \/ warn
  \/ error
  \/ StableReturns
  \/ onChange
  \/ FlagChanges
  \/ Elapse

\* Emission calls keep occurring, queries succeed, time keeps advancing.
Fairness ==
  /\ WF_vars(debug \/ info \/ warn \/ error)
  /\ WF_vars(StableReturns)
  /\ WF_vars(Elapse)

SpecStable == InitStable /\ [][NextStable]_vars /\ Fairness

(***************************************************************************)
(* The logger with the client that emits each 'change' event on record:    *)
(* last.client of a step that is no call is the client whose subscription  *)
(* delivered the event.                                                    *)
(***************************************************************************)
\* Client c, which the logger subscribed to, emits 'change'.
onChangeFrom ==
  \E c \in Clients :
    /\ Bound(c)
    /\ Deliver([NoCall EXCEPT !.client = c])

NextSubscriptions ==
  \/ info
  \/ VariationReturns
  \/ VariationThrows
  \/ setClient
  \/ onChangeFrom
  \/ Tick

SpecSubscriptions == Init /\ [][NextSubscriptions]_vars

(***************************************************************************)
(* Kinds of step.                                                          *)
(***************************************************************************)
\* An entry point entered variation().
QueryStep == Len(stack') > Len(stack)
\* An entry point was called and returned without a query.
CachedCallStep == Len(stack') = Len(stack) /\ last'.method # "none"
\* variation() threw and the suspended entry point returned.
ThrowStep == Len(stack') < Len(stack) /\ last'.threw
\* A change handler ran.
ChangeStep ==
  /\ listeners # <<>>
  /\ last' = NoCall
  /\ Len(stack') = Len(stack)
  /\ UNCHANGED <<flagKey, ldClient, isCheckingFlag, lastCheckTime, now,
                 listeners, lastQueryAt, lastQueryEnd>>

Called == last.method # "none"
Wrote == last.lines # <<>>

(***************************************************************************)
(* C1. Throttle: a query is entered only when none was entered before or   *)
(* at least CHECK_INTERVAL ms after the previous one, so of two calls less *)
(* than the interval apart at most one queries; a call that does not       *)
(* query filters with the cached level and leaves it unchanged.            *)
(***************************************************************************)
C1_Throttle ==
  [][ /\ QueryStep =>
           lastQueryAt = -1 \/ now - lastQueryAt >= CHECK_INTERVAL
      /\ CachedCallStep =>
           /\ ~last'.queried
           /\ last'.level = currentLogLevel
           /\ currentLogLevel' = currentLogLevel ]_vars

\* A call inside the window of an earlier query, answered from the cache.
C1_Witness ==
  /\ Called /\ ~last.queried /\ last.depth = 0
  /\ ldClient # NoClient
  /\ lastQueryAt # -1
  /\ now - lastQueryAt = CHECK_INTERVAL - 1

(***************************************************************************)
(* C2. Whenever no level resolution is executing the guard is clear, after *)
(* a query that returned and after a query that threw.                     *)
(***************************************************************************)
C2_GuardReleased == stack = <<>> => ~isCheckingFlag

\* A query threw, its entry point has returned, the guard is clear.
C2_Witness ==
  /\ stack = <<>>
  /\ last.queried /\ last.threw
  /\ ~isCheckingFlag

(***************************************************************************)
(* C3. Reentrancy: at most one query is in flight; an entry point called   *)
(* while a query is in flight sees the guard set, does not query and uses  *)
(* the cached level; once the outer call has returned the guard is clear.  *)
(***************************************************************************)
C3_Reentrancy ==
  /\ Len(stack) <= 1
  /\ Called /\ last.depth > 0 =>
       /\ last.guard
       /\ ~last.queried
       /\ last.level = currentLogLevel
       /\ isCheckingFlag
  /\ Called /\ last.queried /\ stack = <<>> => ~isCheckingFlag

\* An entry point returned while a query of the same logger was in flight,
\* after the clock had passed the refresh interval.
C3_Witness ==
  /\ Called /\ last.depth > 0
  /\ now - lastCheckTime >= CHECK_INTERVAL

(***************************************************************************)
(* C4. A query that throws: the entry point returns normally, the guard is *)
(* released, the cached level is not changed by the failed query, and the  *)
(* message is filtered with that level.  While a query is in flight only a *)
(* change notification changes the cached level.                           *)
(***************************************************************************)
C4_ThrowRecovered ==
  [][ /\ ThrowStep =>
           /\ currentLogLevel' = currentLogLevel
           /\ ~isCheckingFlag'
           /\ last'.method = Top.method /\ last'.msg = Top.msg
           /\ last'.level = currentLogLevel
           /\ last'.lines = Written(Top.method, Top.msg, currentLogLevel)
      /\ (stack # <<>> /\ Len(stack') >= Len(stack)
            /\ currentLogLevel' # currentLogLevel) => ChangeStep ]_vars

\* After a throw the message was written under a level that is not the
\* default, that is, under the level an earlier refresh or push had cached.
C4_Witness ==
  /\ last.threw
  /\ last.level = "warn"
  /\ last.method = "warn" /\ Wrote

(***************************************************************************)
(* C5. error(m) writes if and only if m is not an internal message,        *)
(* whatever the cached level and whether or not a client is bound.         *)
(***************************************************************************)
C5_ErrorIffNotInternal ==
  last.method = "error" => (Wrote <=> ~isInternalSdkMessage(last.msg))

\* error wrote a message while an unrecognized level was cached.
C5_Witness ==
  /\ last.method = "error"
  /\ last.level = Unrecognized
  /\ Wrote

(***************************************************************************)
(* C6. An internal message is written by none of the four entry points.    *)
(***************************************************************************)
C6_InternalSuppressed ==
  Called /\ isInternalSdkMessage(last.msg) => ~Wrote

\* error was called with the serialized event at level debug.
C6_Witness ==
  /\ last.method = "error"
  /\ last.msg = "{\"context\":{\"key\":\"u1\"},\"key\":\"flag1\"}"
  /\ last.level = "debug"
  /\ ~Wrote

(***************************************************************************)
(* C7. Level table for a message that is not internal, with or without a   *)
(* severity prefix: debug writes only at level debug, info at debug or     *)
(* info, warn at debug, info or warn, error at every level.                *)
(***************************************************************************)
PassLevels(method) ==
  CASE method = "debug" -> {"debug"}
    [] method = "info"  -> {"debug", "info"}
    [] method = "warn"  -> {"debug", "info", "warn"}
    [] method = "error" -> RemoteValues

C7_LevelTable ==
  Called /\ ~isInternalSdkMessage(last.msg) =>
    (Wrote <=> last.level \in PassLevels(last.method))

\* info wrote a message that carries a severity prefix at level debug.
C7_Witness ==
  /\ last.method = "info"
  /\ isCustomFormattedMessage(last.msg)
  /\ last.level = "debug"
  /\ Wrote

(***************************************************************************)
(* C8. Monotonicity: when a call wrote its message at the resolved level,  *)
(* every stricter entry point writes the same message at that level.       *)
(***************************************************************************)
Rank(method) ==
  CASE method = "debug" -> 0
    [] method = "info"  -> 1
    [] method = "warn"  -> 2
    [] method = "error" -> 3

C8_Monotonic ==
  Called /\ Wrote =>
    \A i \in 1..Len(Methods) :
      Rank(Methods[i]) > Rank(last.method) =>
        Written(Methods[i], last.msg, last.level) # <<>>

\* info wrote at level debug, the level at which narrowing a stricter
\* entry point would show.
C8_Witness ==
  /\ last.method = "info"
  /\ last.level = "debug"
  /\ Wrote

(***************************************************************************)
(* C9. Idempotent prefixing: a written message that already starts with a  *)
(* recognized prefix is written unchanged, any other message is written as *)
(* "[LEVEL] " followed by the message.                                     *)
(***************************************************************************)
Prefix(method) ==
  CASE method = "debug" -> "[DEBUG] "
    [] method = "info"  -> "[INFO] "
    [] method = "warn"  -> "[WARN] "
    [] method = "error" -> "[ERROR] "

C9_IdempotentPrefix ==
  Called /\ Wrote =>
    /\ Len(last.lines) = 1
    /\ last.lines[1].text =
         IF isCustomFormattedMessage(last.msg) THEN last.msg
         ELSE Prefix(last.method) \o last.msg

(***************************************************************************)
(* C10. Local-default mode: while setClient has never been called the      *)
(* cached level is info, no query has been entered, debug writes nothing   *)
(* and info, warn and error write a message that is not internal with      *)
(* their own prefix.                                                       *)
(***************************************************************************)
Sink(method) == IF method = "debug" THEN "log" ELSE method

C10_LocalDefault ==
  listeners = <<>> =>
    /\ ldClient = NoClient
    /\ currentLogLevel = "info"
    /\ stack = <<>> /\ lastQueryAt = -1 /\ ~last.queried
    /\ last.method = "debug" => ~Wrote
    /\ last.method \in {"info", "warn", "error"}
         /\ ~isInternalSdkMessage(last.msg) =>
           last.lines = <<Line(Sink(last.method),
                               Prefix(last.method) \o last.msg)>>

\* Unbound, after time has passed: warn wrote its message.
C10_Witness ==
  /\ listeners = <<>>
  /\ now > StartTime
  /\ last.method = "warn"
  /\ last.lines = <<Line("warn", "[WARN] x")>>

(***************************************************************************)
(* C11. First refresh: once a client is bound, no emission call is         *)
(* answered from the cache before a query has been entered, so the first   *)
(* call after the first setClient queries; the call is filtered with the   *)
(* value variation() returns.  With the value warn, warn writes its        *)
(* prefixed message and an info call answered from the cache afterwards    *)
(* writes nothing.                                                         *)
(***************************************************************************)
C11_FirstRefresh ==
  [][ /\ CachedCallStep /\ ldClient # NoClient => lastQueryAt # -1
      /\ QueryStep /\ lastQueryAt = -1 =>
           /\ Len(listeners) >= 1 /\ stack = <<>>
           /\ lastQueryAt' = now
      /\ Len(stack') < Len(stack) /\ ~last'.threw =>
           /\ last'.level = last'.returned
           /\ last'.lines = Written(last'.method, last'.msg, last'.returned)
           /\ last'.returned = "warn" /\ last'.method = "warn" =>
                last'.lines = <<Line("warn", "[WARN] " \o last'.msg)>>
      /\ CachedCallStep /\ currentLogLevel = "warn" /\ last'.method = "info"
           => last'.lines = <<>> ]_vars

\* The first query after the first setClient returned warn and the warn
\* call that made it wrote its message.
C11_Witness ==
  /\ Len(listeners) = 1
  /\ lastQueryAt = StartTime /\ lastQueryEnd = StartTime
  /\ last.queried /\ ~last.threw /\ last.returned = "warn"
  /\ last.method = "warn"
  /\ last.lines = <<Line("warn", "[WARN] x")>>

(***************************************************************************)
(* C12. Push bypasses the throttle.  As claimed: the first emission call   *)
(* that begins after a change notification for flagKey carrying v is       *)
(* filtered with v.  (A frame's next says that the call began after the    *)
(* notification held in pending.)                                          *)
(***************************************************************************)
C12_NextCallUsesPushed ==
  [][ /\ CachedCallStep /\ pending # NoValue => last'.level = pending
      /\ Len(stack') < Len(stack) /\ Top.next /\ pending # NoValue =>
           last'.level = pending ]_vars

(***************************************************************************)
(* C12, amended.  A change notification for flagKey carrying v makes v     *)
(* the cached level at once, whatever the time since the last query.  The  *)
(* first emission call that begins after it is filtered with v whenever    *)
(* it is answered from the cache (as every call less than CHECK_INTERVAL   *)
(* after the last query is) or its query throws, provided no query result  *)
(* and no later notification arrived in between; a call whose query        *)
(* returns is filtered with the returned value.                            *)
(***************************************************************************)
C12_PushBypassesThrottle ==
  [][ /\ pending' # NoValue => currentLogLevel' = pending'
      /\ CachedCallStep /\ pending # NoValue =>
           /\ last'.level = pending
           /\ last'.lines = Written(last'.method, last'.msg, pending)
      /\ ThrowStep /\ Top.next /\ pending # NoValue => last'.level = pending
      /\ Len(stack') < Len(stack) /\ ~last'.threw =>
           last'.level = last'.returned ]_vars

\* A query was entered and finished, debug was pushed in the same
\* millisecond and is the cached level: a debug call made now is answered
\* from the cache and writes.
C12_Witness ==
  /\ ldClient # NoClient /\ stack = <<>>
  /\ lastQueryAt = now /\ lastQueryEnd = now
  /\ pending = "debug" /\ currentLogLevel = "debug"
  /\ ReturnsCached
  /\ Console["debug", "x", currentLogLevel] = <<Line("log", "[DEBUG] x")>>

(***************************************************************************)
(* C13. As claimed: currentLogLevel is never null, and it only ever        *)
(* changes to one of the four level names (a null or unrecognized query    *)
(* result or notification leaves it unchanged).                            *)
(***************************************************************************)
C13_InvalidIgnored ==
  [][ /\ currentLogLevel' # Null
      /\ currentLogLevel' # currentLogLevel => currentLogLevel' \in Levels
    ]_vars

(***************************************************************************)
(* C13, amended.  currentLogLevel changes only when variation() returns    *)
(* or a change for flagKey is handled, and then takes the delivered value  *)
(* verbatim, null and unrecognized values included; a query that throws    *)
(* leaves it unchanged.  It is null only after null was delivered.         *)
(***************************************************************************)
C13_CachedVerbatim ==
  [][ /\ Len(stack') < Len(stack) /\ ~last'.threw =>
           currentLogLevel' = last'.returned
      /\ ThrowStep => currentLogLevel' = currentLogLevel
      /\ ChangeStep /\ pending' # NoValue => currentLogLevel' = pending'
      /\ currentLogLevel' # currentLogLevel =>
           \/ Len(stack') < Len(stack) /\ ~last'.threw
           \/ ChangeStep /\ pending' = currentLogLevel'
      /\ currentLogLevel' = Null /\ currentLogLevel # Null =>
           last'.returned = Null \/ pending' = Null ]_vars

\* A change for flagKey carried null while the level was a level name
\* obtained from a query: the cached level is null.
C13_Witness ==
  /\ pending = Null /\ currentLogLevel = Null
  /\ lastQueryEnd # -1 /\ stack = <<>>

(***************************************************************************)
(* C14. A value returned by variation() that is not a level name is        *)
(* cached as it is; a call filtered with such a level writes nothing       *)
(* through debug, info and warn, and error still writes every message      *)
(* that is not internal.                                                   *)
(***************************************************************************)
C14_UnrecognizedCached ==
  /\ last.queried /\ ~last.threw /\ last.returned \notin Levels =>
       /\ currentLogLevel = last.returned
       /\ last.level = last.returned
  /\ Called /\ last.level \notin Levels =>
       /\ last.method \in {"debug", "info", "warn"} => ~Wrote
       /\ last.method = "error" /\ ~isInternalSdkMessage(last.msg) =>
            last.lines = <<Line("error", "[ERROR] " \o last.msg)>>

\* 'verbose' came back from a query and a later warn call, answered from
\* the cache, wrote nothing.
C14_Witness ==
  /\ ldClient # NoClient /\ lastQueryEnd # -1
  /\ Called /\ ~last.queried
  /\ last.level = Unrecognized /\ currentLogLevel = Unrecognized
  /\ last.method = "warn" /\ last.msg = "boom" /\ ~Wrote

(***************************************************************************)
(* C15. As claimed: the flag key of a constructed logger is the string or  *)
(* the record's logLevelFlagKey the caller supplied, or the default key    *)
(* when the argument is missing, invalid or empty.                         *)
(***************************************************************************)
ResolvedKey(arg) ==
  CASE arg.type = "string" /\ arg.value # "" -> arg.value
    [] arg.type = "object" /\ arg.logLevelFlagKey # "" -> arg.logLevelFlagKey
    [] OTHER -> DefaultFlagKey

C15_KeyResolved ==
  /\ flagKey \in {ResolvedKey(arg) : arg \in AllCtorArgs}
  /\ flagKey # ""

(***************************************************************************)
(* C16. Rebinding: setClient can be called again at any time, also while   *)
(* a query is in flight; each call stores its client, adds one             *)
(* subscription and touches nothing else; every query is made on the       *)
(* client of the latest setClient.                                         *)
(***************************************************************************)
C16_Rebinding ==
  [][ /\ listeners' # listeners =>
           /\ listeners' = Append(listeners, ldClient')
           /\ ldClient' \in Clients
           /\ UNCHANGED <<currentLogLevel, isCheckingFlag, lastCheckTime,
                          stack>>
      /\ listeners' = listeners => ldClient' = ldClient
      /\ QueryStep =>
           /\ listeners # <<>>
           /\ stack'[Len(stack')].client = listeners[Len(listeners)]
      /\ Len(stack') < Len(stack) => last'.client = Top.client ]_vars

\* After a query on the first client finished, a second, different client
\* was bound and the query now in flight is on the second one.
C16_Witness ==
  /\ Len(listeners) = 2 /\ listeners[1] # listeners[2]
  /\ lastQueryEnd # -1
  /\ stack # <<>> /\ Top.client = listeners[2]

(***************************************************************************)
(* C17. No logging loop: while variation() is executing, no call of the    *)
(* logger enters variation() again, whatever the client logs and however   *)
(* far the clock advances; each such call returns at once from the cache.  *)
(* The chain logger -> client -> logger therefore ends after one query:    *)
(* at most one is in flight.                                               *)
(***************************************************************************)
C17_NoLoggingLoop ==
  [][ /\ Len(stack') <= 1
      /\ stack # <<>> =>
           /\ Len(stack') <= Len(stack)
           /\ CachedCallStep =>
                /\ last'.depth = 1 /\ ~last'.queried
                /\ stack' = stack
                /\ UNCHANGED <<isCheckingFlag, lastCheckTime, lastQueryAt>>
    ]_vars

\* At level debug, with the refresh interval passed since the query was
\* entered, the client logged at debug from inside variation(): the message
\* was written and no second query was made.
C17_Witness ==
  /\ Len(stack) = 1
  /\ Called /\ last.depth = 1 /\ ~last.queried
  /\ last.method = "debug" /\ last.level = "debug"
  /\ last.lines = <<Line("log", "[DEBUG] x")>>
  /\ now - lastQueryAt >= CHECK_INTERVAL

(***************************************************************************)
(* C18. As claimed: each demonstration message of the example is written   *)
(* exactly at the levels its text names: the debug message at debug, the   *)
(* info message at debug and info, the warning at debug, info and warn,    *)
(* the error message at every level.                                       *)
(***************************************************************************)
C18_DemoMessages ==
  Called /\ flagKey = DefaultFlagKey /\ last.msg = DemoMessage(last.method) =>
    (Wrote <=> last.level \in PassLevels(last.method))

(***************************************************************************)
(* C19. An emission call enters variation() exactly when a client is       *)
(* bound, no query is in flight and no query was entered yet or at least   *)
(* CHECK_INTERVAL ms passed since the last one was entered.  Each call     *)
(* resolves the level once: it enters exactly one query in that case and   *)
(* none otherwise.                                                         *)
(***************************************************************************)
RefreshDue ==
  /\ ldClient # NoClient
  /\ stack = <<>>
  /\ lastQueryAt = -1 \/ now - lastQueryAt >= CHECK_INTERVAL

C19_QueryIffDue ==
  [][ /\ QueryStep =>
           /\ RefreshDue
           /\ Len(stack') = Len(stack) + 1
           /\ lastQueryAt' = now
      /\ CachedCallStep =>
           /\ ~RefreshDue
           /\ stack' = stack
           /\ lastQueryAt' = lastQueryAt ]_vars

\* A debug call entered the second query exactly CHECK_INTERVAL ms after
\* the first one was entered.
C19_Witness ==
  /\ Len(stack) = 1 /\ Top.method = "debug"
  /\ lastQueryEnd = StartTime
  /\ lastQueryAt = StartTime + CHECK_INTERVAL

(***************************************************************************)
(* C20. As claimed: the throttle window is counted from the end of the     *)
(* previous query: a query is entered at least CHECK_INTERVAL ms after     *)
(* the previous one returned or threw.                                     *)
(***************************************************************************)
C20_WindowFromEnd ==
  [][ QueryStep =>
        lastQueryEnd = -1 \/ now - lastQueryEnd >= CHECK_INTERVAL ]_vars

(***************************************************************************)
(* C20, amended.  The window is counted from the start of the previous     *)
(* query: the timestamp is taken when the query is entered and is not      *)
(* touched when it returns or throws.  A query is entered at least         *)
(* CHECK_INTERVAL ms after the previous one was entered; counted from the  *)
(* end of the previous one the distance is shorter by the time that query  *)
(* took.                                                                   *)
(***************************************************************************)
C20_WindowFromStart ==
  [][ /\ QueryStep => lastCheckTime' = now
      /\ Len(stack') < Len(stack) =>
           /\ lastCheckTime' = lastCheckTime
           /\ lastCheckTime = lastQueryAt
           /\ lastQueryEnd' = now
      /\ QueryStep /\ lastQueryEnd # -1 =>
           /\ now - lastQueryAt >= CHECK_INTERVAL
           /\ now - lastQueryEnd >=
                CHECK_INTERVAL - (lastQueryEnd - lastQueryAt) ]_vars

\* The clock advanced by the whole interval while the first query was
\* executing, and the second query was entered in the millisecond the
\* first one finished.
C20_Witness ==
  /\ Len(stack) = 1
  /\ lastQueryEnd # -1
  /\ lastQueryAt = lastQueryEnd
  /\ lastQueryAt = StartTime + CHECK_INTERVAL

(***************************************************************************)
(* C21. debug decides like shouldLog: a debug call writes exactly when     *)
(* shouldLog('debug', message) is true for the level the call resolved,    *)
(* and a call has the same effect on guard, timestamp and cached level     *)
(* whichever entry point makes it: none when getLogLevel() returns the     *)
(* cache, guard set and timestamp taken when it enters variation().        *)
(***************************************************************************)
C21_DebugLikeShouldLog ==
  [][ /\ last'.method = "debug" =>
           (last'.lines # <<>> <=>
              shouldLog("debug", last'.msg, last'.level))
      /\ CachedCallStep =>
           /\ ReturnsCached
           /\ UNCHANGED <<currentLogLevel, isCheckingFlag, lastCheckTime>>
      /\ QueryStep =>
           /\ ~ReturnsCached
           /\ isCheckingFlag' /\ lastCheckTime' = now
           /\ UNCHANGED currentLogLevel ]_vars

\* A debug call queried, got debug and wrote a message that starts with
\* '[DEBUG]'.
C21_Witness ==
  /\ last.method = "debug" /\ last.queried /\ ~last.threw
  /\ last.level = "debug" /\ last.msg = "[DEBUG]x"
  /\ last.lines = <<Line("log", "[DEBUG]x")>>

(***************************************************************************)
(* C22. Frame of a change notification.  A step in which no entry point    *)
(* is called or returns, no client is bound and the clock stands still is  *)
(* the handling of a notification (or changes nothing).  It leaves the     *)
(* guard and the timestamp as they are, also while a query is in flight;   *)
(* the cached level becomes the delivered value when the change is for     *)
(* flagKey and is left as it is otherwise.                                 *)
(***************************************************************************)
NotifyStep ==
  /\ last' = NoCall
  /\ Len(stack') = Len(stack)
  /\ listeners' = listeners
  /\ now' = now

C22_NotificationFrame ==
  [][ NotifyStep =>
        /\ UNCHANGED <<isCheckingFlag, lastCheckTime, ldClient, flagKey>>
        /\ pending' # NoValue => currentLogLevel' = pending'
        /\ pending' = NoValue => currentLogLevel' = currentLogLevel
        /\ currentLogLevel' # currentLogLevel => pending' = currentLogLevel'
    ]_vars

\* A change to debug was handled while a query was in flight and after
\* the clock had advanced: the guard is still set and the timestamp is
\* still the one of the query.
C22_Witness ==
  /\ stack # <<>> /\ isCheckingFlag
  /\ ~Called
  /\ pending = "debug" /\ currentLogLevel = "debug"
  /\ lastCheckTime = StartTime /\ now > StartTime

(***************************************************************************)
(* C23. isInternalSdkMessage is true exactly for the messages one of the   *)
(* four rules matches: of the probe messages, those built to match one     *)
(* rule each are internal and those that miss every rule (a brace without  *)
(* marker, a marker without leading brace, another event kind, the wrong   *)
(* case, another flag key) are not.  error, which writes exactly the       *)
(* messages that are not internal, shows the classification.               *)
(***************************************************************************)
C23_ClassifierRules ==
  Called /\ last.msg \in InternalProbes \cup PlainProbes =>
    /\ isInternalSdkMessage(last.msg) <=> last.msg \in InternalProbes
    /\ last.method = "error" => (Wrote <=> last.msg \in PlainProbes)
    /\ last.msg \in InternalProbes => ~Wrote

\* error was called with the flag key in mixed case and wrote nothing.
C23_Witness ==
  /\ last.method = "error" /\ last.msg = "SDK-Log-Level" /\ ~Wrote

(***************************************************************************)
(* C24. As claimed: whatever key the logger was constructed with, a        *)
(* message that mentions that key is never written.                        *)
(***************************************************************************)
C24_OwnKeySuppressed ==
  Called /\ flagKey # "" /\ includes(last.msg, flagKey) => ~Wrote

(***************************************************************************)
(* C24, amended.  The classifier knows the default key only: a message     *)
(* that mentions 'sdk-log-level' (in any case) or 'sdkLogLevel' is never   *)
(* written, whatever key the logger was constructed with; a message that   *)
(* mentions another configured key and matches no other rule is written    *)
(* whenever the level admits the entry point.                              *)
(***************************************************************************)
C24_DefaultKeySuppressed ==
  Called =>
    /\ includes(toLowerCase(last.msg), DefaultFlagKey) => ~Wrote
    /\ includes(last.msg, "sdkLogLevel") => ~Wrote
    /\ flagKey # DefaultFlagKey /\ flagKey # ""
         /\ includes(last.msg, flagKey)
         /\ ~isInternalSdkMessage(last.msg) =>
           (Wrote <=> last.level \in PassLevels(last.method))

\* A logger constructed with 'custom-log-level' wrote a message that
\* mentions that key.
C24_Witness ==
  /\ flagKey = "custom-log-level"
  /\ last.method = "info" /\ last.msg = "custom-log-level"
  /\ last.lines = <<Line("info", "[INFO] custom-log-level")>>

(***************************************************************************)
(* C25: the component's ldClient.identify is called only when the context  *)
(* is a non-anonymous one, at least DEBOUNCE after the latest notification *)
(* for the key whose value was not the value seen before it, and at most   *)
(* once after it, however many such notifications came less than DEBOUNCE  *)
(* apart; a notification repeating the value seen last leaves the timer    *)
(* as it is and calls nothing.                                             *)
(***************************************************************************)
C25_Debounce ==
  [][ /\ observed'.identifies # observed.identifies =>
           /\ observed'.identifies = observed.identifies + 1
           /\ context = "user"
           /\ observed.differAt >= 0
           /\ now >= observed.differAt + DEBOUNCE
           /\ ~observed.answered
      /\ observed'.event = "repeat" =>
           /\ UNCHANGED <<timers, debounceTimer, lastLogLevel>>
           /\ observed'.identifies = observed.identifies ]_vars

\* Differing notifications less than DEBOUNCE apart and a repeating one
\* were followed by the one re-identify.
C25_Witness ==
  /\ observed.event = "identify"
  /\ observed.idRapid
  /\ observed.idRepeated
  /\ observed.identifies = 1

(***************************************************************************)
(* C26: once the effect's cleanup has run, handleFlagChange is subscribed  *)
(* nowhere and no debounce timer is pending, and from then on the          *)
(* component calls ldClient.identify no more and is handed no              *)
(* notification.                                                           *)
(***************************************************************************)
C26_Cleanup ==
  [][ mounted' = "gone" =>
        /\ handlers' = 0
        /\ timers' = {}
        /\ mounted = "gone" =>
             /\ observed'.identifies = observed.identifies
             /\ observed'.event = "none"
             /\ UNCHANGED <<lastLogLevel, debounceTimer>> ]_vars

\* The cleanup ran while a timer was pending for a known user, and the
\* time the timer was due has come without a re-identify.
C26_Witness ==
  /\ mounted = "gone"
  /\ debounceTimer # NoTimer
  /\ debounceTimer.due <= now
  /\ context = "user"
  /\ observed.differAt >= 0
  /\ ~observed.answered

(***************************************************************************)
(* C27: a query that throws leaves the timestamp recorded before it, so    *)
(* when it has thrown, a call made less than CHECK_INTERVAL after the      *)
(* query was entered returns the cached level without a query, and the     *)
(* next query is entered no sooner than CHECK_INTERVAL after the failed    *)
(* one.                                                                    *)
(***************************************************************************)
C27_FailedRefreshThrottles ==
  [][ /\ ThrowStep =>
           /\ lastCheckTime' = lastCheckTime
           /\ lastCheckTime' = lastQueryAt'
           /\ now' - lastQueryAt' < CHECK_INTERVAL => ReturnsCached'
      /\ QueryStep /\ lastQueryEnd # -1 =>
           now - lastQueryAt >= CHECK_INTERVAL ]_vars

\* A query has just thrown, almost an interval after it was entered, with
\* the client bound and nothing else in flight: the next call is answered
\* from the cache.
C27_Witness ==
  /\ last.threw
  /\ stack = <<>>
  /\ ldClient # NoClient
  /\ ~isCheckingFlag
  /\ now - lastQueryAt = CHECK_INTERVAL - 1
  /\ ReturnsCached

(***************************************************************************)
(* C28: a call of an entry point writes no line or one line; when error's  *)
(* shouldLog("error", message) is false, the message is an internal one    *)
(* and the fallback branch writes nothing.                                 *)
(***************************************************************************)
C28_AtMostOneLine ==
  Called =>
    /\ Len(last.lines) <= 1
    /\ last.method = "error"
         /\ ~shouldLog("error", last.msg, last.level) =>
           /\ isInternalSdkMessage(last.msg)
           /\ ~Wrote

\* error was called with an internal message under the level debug and
\* wrote nothing.
C28_Witness ==
  /\ Called
  /\ last.method = "error"
  /\ last.level = "debug"
  /\ isInternalSdkMessage(last.msg)
  /\ ~Wrote

(***************************************************************************)
(* C29: when a query returns after a change notification for flagKey that  *)
(* no call has used, whether the notification came while the query was in  *)
(* flight or before the query was entered, the cached level is the value   *)
(* the query returned and the call is filtered with it; a query entered    *)
(* after such a notification is entered only when none was entered before  *)
(* or CHECK_INTERVAL after the previous one.                               *)
(***************************************************************************)
C29_QueryResultWins ==
  [][ /\ Len(stack') < Len(stack) /\ ~last'.threw /\ pending # NoValue =>
           /\ currentLogLevel' = last'.returned
           /\ last'.level = last'.returned
           /\ pending' = NoValue
           /\ (last'.replaced # "none") = (pending # last'.returned)
           /\ (last'.replaced = "in flight") => ~Top.next
      /\ QueryStep /\ pending # NoValue =>
           lastQueryAt = -1 \/ now - lastQueryAt >= CHECK_INTERVAL ]_vars

\* A query returned error after another value had been notified while it
\* was in flight: error is the cached level.
C29_Witness ==
  /\ last.queried /\ ~last.threw
  /\ last.replaced = "in flight"
  /\ last.returned = "error"
  /\ currentLogLevel = "error"
  /\ stack = <<>>

(***************************************************************************)
(* C30: with a client bound whose queries succeed, while calls keep        *)
(* occurring and time keeps passing, the cached level comes to equal the   *)
(* flag's value at the client; and while the flag's value stays, a cached  *)
(* level equal to it changes only by a change notification for flagKey     *)
(* that carries another value.                                             *)
(***************************************************************************)
C30_Converges ==
  /\ [](ldClient # NoClient => <>(currentLogLevel = remote.value))
  /\ [][ /\ currentLogLevel = remote.value
         /\ remote' = remote
         /\ currentLogLevel' # remote.value
         => ChangeStep /\ pending' = currentLogLevel' ]_vars

\* The flag's value was changed to debug at the client and a query has
\* made debug the cached level.
C30_Witness ==
  /\ ldClient # NoClient
  /\ remote.changes > 0
  /\ remote.value = "debug"
  /\ last.queried /\ last.returned = "debug"
  /\ currentLogLevel = "debug"

(***************************************************************************)
(* C31: setClient enters no query and leaves the cached level, the guard   *)
(* and the timestamp as they are, so a call made after it and less than    *)
(* CHECK_INTERVAL after the last query returns the cached level without a  *)
(* query; the client it bound is queried no sooner than CHECK_INTERVAL     *)
(* after the last query, whichever client that one was made on.            *)
(***************************************************************************)
C31_BindKeepsWindow ==
  [][ /\ listeners' # listeners =>
           /\ UNCHANGED <<currentLogLevel, isCheckingFlag, lastCheckTime,
                          stack, lastQueryAt, lastQueryEnd, now>>
           /\ last' = NoCall
           /\ lastQueryAt # -1 /\ now - lastQueryAt < CHECK_INTERVAL =>
                ReturnsCached'
      /\ QueryStep /\ lastQueryAt # -1 =>
           /\ now - lastQueryAt >= CHECK_INTERVAL
           /\ lastCheckTime = lastQueryAt ]_vars

\* A query on the first client finished, a different client was bound less
\* than CHECK_INTERVAL after it was entered, and a call made since then was
\* answered from the cache.
C31_Witness ==
  /\ Len(listeners) >= 2
  /\ listeners[Len(listeners)] # listeners[1]
  /\ ldClient = listeners[Len(listeners)]
  /\ lastQueryEnd # -1
  /\ now - lastQueryAt < CHECK_INTERVAL
  /\ stack = <<>> /\ ~isCheckingFlag
  /\ Called /\ ~last.queried

(***************************************************************************)
(* C32: every setClient adds one subscription and none is ever removed, so *)
(* after k calls there are k; a 'change' event comes from a client that was *)
(* bound at some time, the current one or one that has been replaced, and  *)
(* when it is for flagKey the cached level becomes the value it carries.   *)
(***************************************************************************)
Delivered == last'.method = "none" /\ last'.client # NoClient

C32_SubscriptionsAccumulate ==
  [][ /\ Len(listeners') >= Len(listeners)
      /\ SubSeq(listeners', 1, Len(listeners)) = listeners
      /\ ldClient' # ldClient \/ listeners' # listeners =>
           listeners' = Append(listeners, ldClient')
      /\ Delivered =>
           /\ \E i \in 1..Len(listeners) : listeners[i] = last'.client
           /\ listeners' = listeners
           /\ pending' # pending => currentLogLevel' = pending'
           /\ currentLogLevel' # currentLogLevel =>
                currentLogLevel' = pending' ]_vars

\* Two different clients were bound; the first, which has been replaced,
\* emitted a change of flagKey to debug, and debug is the cached level.
C32_Witness ==
  /\ Len(listeners) = 2
  /\ listeners[1] # listeners[2]
  /\ ldClient = listeners[2]
  /\ last.method = "none" /\ last.client = listeners[1]
  /\ pending = "debug"
  /\ currentLogLevel = "debug"

====
